---- MODULE Spec2Model ----
(***************************************************************************)
(* A model of src/start.js: the catalog fetch and its stability filter,    *)
(* the spec loader, the matcher/aggregator (parseBrowserVersion,           *)
(* getBrowsersThatMatchSpec, addBrowsers, getBrowserId) and main.          *)
(*                                                                         *)
(* JavaScript strings are sequences of one-character strings, so that the  *)
(* regular expressions, split, join and parseFloat of the source are       *)
(* computed character by character.  A browser_version is a tagged value:  *)
(* Absent (the key is missing, undefined or null) or Str(s).  The fields   *)
(* device, os, os_version and browser are strings.                         *)
(***************************************************************************)
EXTENDS Integers, Sequences, FiniteSets, TLC

VARIABLES
    pc,                      \* position of main
    response,                \* what browserstack.getBrowsers() resolved with
    availableBrowsers,       \* main: availableBrowsers
    aggregatedBrowserSpecs,  \* main: aggregatedBrowserSpecs
    gi,                      \* index of the outer forEach of getTargetBrowsers
    specs,                   \* getTargetBrowsers: specs of the current group
    si,                      \* index of the inner forEach of getTargetBrowsers
    browserMap,              \* getTargetBrowsers: targetBrowsers (the object)
    spec,                    \* the spec of the latest getBrowsersThatMatchSpec call
    sortedBrowsers,          \* its local browsers after the sort of line 127
    browsers,                \* its local browsers at line 139
    calls,                   \* number of getBrowsersThatMatchSpec calls so far
    inserted,                \* every browser addBrowsers stored, in order
    stderr,                  \* lines written by console.error and console.warn
    stdout,                  \* values written by console.log
    exitStatus               \* the status the process ended with, or Running

vars == <<pc, response, availableBrowsers, aggregatedBrowserSpecs, gi, specs, si,
          browserMap, spec, sortedBrowsers, browsers, calls, inserted, stderr,
          stdout, exitStatus>>

-----------------------------------------------------------------------------
(* Bounds of the model *)

\* longest catalog the provider returns under SpecSingle
MaxCatalog == 3
\* longest catalog the provider returns under Spec
MaxPipelineCatalog == 2
\* most browser entries (over all groups) of browsers.json under Spec
MaxSpecs == 2

-----------------------------------------------------------------------------
(* JavaScript values *)

Absent == [t |-> "absent", s |-> <<>>]
Str(s) == [t |-> "string", s |-> s]

\* ToBoolean of a browser_version: undefined, null and "" are falsy
Truthy(v) == v.t = "string" /\ v.s # <<>>

Digits == {"0", "1", "2", "3", "4", "5", "6", "7", "8", "9"}

DigitVal(c) ==
    CASE c = "0" -> 0 [] c = "1" -> 1 [] c = "2" -> 2 [] c = "3" -> 3
      [] c = "4" -> 4 [] c = "5" -> 5 [] c = "6" -> 6 [] c = "7" -> 7
      [] c = "8" -> 8 [] c = "9" -> 9

\* the index after the longest run of digits of s that starts at i (\d* at i)
RECURSIVE SkipDigits(_, _)
SkipDigits(s, i) ==
    IF i <= Len(s) /\ s[i] \in Digits THEN SkipDigits(s, i + 1) ELSE i

\* ToNumber of a string of decimal digits
RECURSIVE ToNumber(_)
ToNumber(d) ==
    IF d = <<>> THEN 0
    ELSE 10 * ToNumber(SubSeq(d, 1, Len(d) - 1)) + DigitVal(d[Len(d)])

RECURSIVE Pow10(_)
Pow10(k) == IF k = 0 THEN 1 ELSE 10 * Pow10(k - 1)

\* parseFloat(v): the longest decimal prefix digits[.digits] or .digits of
\* String(v), as num / 10^scale; NaN when there is none ("undefined", "null", "")
parseFloat(v) ==
    IF v.t # "string" THEN [nan |-> TRUE, num |-> 0, scale |-> 0]
    ELSE LET s == v.s
             i == SkipDigits(s, 1)
             j == IF i <= Len(s) /\ s[i] = "." THEN SkipDigits(s, i + 1) ELSE i
             frac == IF j > i THEN SubSeq(s, i + 1, j - 1) ELSE <<>>
         IN  IF i = 1 /\ frac = <<>>
             THEN [nan |-> TRUE, num |-> 0, scale |-> 0]
             ELSE [nan |-> FALSE,
                   num |-> ToNumber(SubSeq(s, 1, i - 1) \o frac),
                   scale |-> Len(frac)]

-----------------------------------------------------------------------------
(* loadAvailableBrowsers *)

\* IsStableVersion with the pattern's end anchor left out
IsStableVersionUnanchored(s) == SkipDigits(s, 1) > 1

\* /^\d+(\.\d+)?$/.exec(s) finds a match
IsStableVersion(s) ==
    LET i == SkipDigits(s, 1)
    IN  /\ i > 1
        /\ \/ i = Len(s) + 1
           \/ /\ i <= Len(s)
              /\ s[i] = "."
              /\ LET j == SkipDigits(s, i + 1)
                 IN  j > i + 1 /\ j = Len(s) + 1

\* the predicate of the filter of lines 42-44
KeepBrowser(browser) ==
    \/ ~Truthy(browser.browser_version)
    \/ (Truthy(browser.browser_version) /\ IsStableVersion(browser.browser_version.s))

FilterStable(all) == SelectSeq(all, KeepBrowser)

-----------------------------------------------------------------------------
(* parseBrowserVersion *)

LastLiteral == <<"l", "a", "s", "t", " ">>
Comma == ","

\* the places where /last (\d+)/ matches in s
LastMatchStarts(s) ==
    {i \in 1..Len(s) :
        /\ i + 5 <= Len(s)
        /\ SubSeq(s, i, i + 4) = LastLiteral
        /\ s[i + 5] \in Digits}

\* version.split(',')
RECURSIVE Split(_)
Split(s) ==
    LET commas == {i \in 1..Len(s) : s[i] = Comma}
    IN  IF commas = {} THEN <<s>>
        ELSE LET i == CHOOSE k \in commas : \A m \in commas : k <= m
             IN  <<SubSeq(s, 1, i - 1)>> \o Split(SubSeq(s, i + 1, Len(s)))

\* The result {type, value}: value is the captured digits for 'last' and the
\* pieces are held in list for 'list' (one record shape for the three types).
parseBrowserVersion(version) ==
    IF Truthy(version)
    THEN LET starts == LastMatchStarts(version.s)
         IN  IF starts # {}
             THEN LET i == CHOOSE k \in starts : \A m \in starts : k <= m
                      j == SkipDigits(version.s, i + 5)
                  IN  [type |-> "last", value |-> SubSeq(version.s, i + 5, j - 1),
                       list |-> <<>>]
             ELSE [type |-> "list", value |-> <<>>, list |-> Split(version.s)]
    ELSE [type |-> "no-version", value |-> <<>>, list |-> <<>>]

-----------------------------------------------------------------------------
(* getBrowsersThatMatchSpec *)

\* a line of the error output: a text, or the JSON of a spec
TextLine(text) == [text |-> text, json |-> <<>>]
JsonLine(s) == [text |-> "", json |-> <<s>>]

\* MatchesSpec with the os and os_version comparisons left out
MatchesSpecIgnoringOs(s, browser) ==
    /\ s.device = browser.device
    /\ s.browser = browser.browser

\* the predicate of the filter of lines 115-121
MatchesSpec(s, browser) ==
    /\ s.device = browser.device
    /\ s.os = browser.os
    /\ s.os_version = browser.os_version
    /\ s.browser = browser.browser

\* Includes comparing the versions as numbers
IncludesNumeric(versions, v) ==
    \E i \in 1..Len(versions) :
        LET x == parseFloat(Str(versions[i]))
            y == parseFloat(v)
        IN  /\ ~x.nan
            /\ ~y.nan
            /\ x.num * Pow10(y.scale) = y.num * Pow10(x.scale)

\* versions.includes(browser.browser_version)
Includes(versions, v) ==
    v.t = "string" /\ \E i \in 1..Len(versions) : versions[i] = v.s

\* CompareVersions with a and b exchanged (an ascending sort)
CompareVersionsAscending(a, b) ==
    LET x == parseFloat(a.browser_version)
        y == parseFloat(b.browser_version)
        d == x.num * Pow10(y.scale) - y.num * Pow10(x.scale)
    IN  IF x.nan \/ y.nan THEN 0
        ELSE IF d < 0 THEN -1 ELSE IF d > 0 THEN 1 ELSE 0

\* the comparator of line 127, as Array.prototype.sort reads it: the sign of
\* parseFloat(b.browser_version) - parseFloat(a.browser_version), NaN read as +0
CompareVersions(a, b) ==
    LET x == parseFloat(a.browser_version)
        y == parseFloat(b.browser_version)
        d == y.num * Pow10(x.scale) - x.num * Pow10(y.scale)
    IN  IF x.nan \/ y.nan THEN 0
        ELSE IF d < 0 THEN -1 ELSE IF d > 0 THEN 1 ELSE 0

\* whether the comparator is a consistent comparator for the elements of s
ConsistentComparator(s) ==
    \A i, j, k \in 1..Len(s) :
        /\ (CompareVersions(s[i], s[j]) = 0 /\ CompareVersions(s[j], s[k]) = 0)
               => CompareVersions(s[i], s[k]) = 0
        /\ (CompareVersions(s[i], s[j]) < 0 /\ CompareVersions(s[j], s[k]) < 0)
               => CompareVersions(s[i], s[k]) < 0
        /\ (CompareVersions(s[i], s[j]) > 0 /\ CompareVersions(s[j], s[k]) > 0)
               => CompareVersions(s[i], s[k]) > 0

\* x put into the sorted sequence s behind every element that does not sort after it
RECURSIVE InsertSorted(_, _)
InsertSorted(s, x) ==
    IF s = <<>> THEN <<x>>
    ELSE IF CompareVersions(Head(s), x) <= 0
         THEN <<Head(s)>> \o InsertSorted(Tail(s), x)
         ELSE <<x>> \o s

\* the stable sort of s under the comparator
RECURSIVE StableSort(_)
StableSort(s) ==
    IF s = <<>> THEN <<>>
    ELSE InsertSorted(StableSort(SubSeq(s, 1, Len(s) - 1)), s[Len(s)])

ArrayPermutations(s) ==
    {[i \in 1..Len(s) |-> s[p[i]]] :
        p \in {q \in [1..Len(s) -> 1..Len(s)] :
                  \A a, b \in 1..Len(s) : q[a] = q[b] => a = b}}

\* browsers.sort(comparator): the stable sort under a consistent comparator,
\* an implementation-defined order (any permutation) under an inconsistent one
SortOutcomes(s) ==
    IF ConsistentComparator(s) THEN {StableSort(s)} ELSE ArrayPermutations(s)

\* NotEnough with <= for <
NotEnoughOrEqual(len, value) == len <= ToNumber(value)

\* browsers.length < spec.browser_version.value (the value is a digit string)
NotEnough(len, value) == len < ToNumber(value)

\* browsers.slice(0, value)
Slice(s, value) ==
    LET n == ToNumber(value)
    IN  SubSeq(s, 1, IF n < Len(s) THEN n ELSE Len(s))

\* NoBrowsers with < for ===
NoBrowsersBelowZero(s) == Len(s) < 0

\* browsers.length === 0 (line 139)
NoBrowsers(s) == Len(s) = 0

NotEnoughReport(s) ==
    <<TextLine("Not enough versions available for the following spec:"),
      JsonLine(s), TextLine("Exiting...")>>

NoBrowsersReport(s) ==
    <<TextLine("No browsers available for the following spec:"),
      JsonLine(s), TextLine("Exiting...")>>

\* what the call ends with, given its local browsers at line 139
EmptyCheck(s, sorted, found) ==
    IF NoBrowsers(found)
    THEN [exited |-> TRUE, report |-> NoBrowsersReport(s),
          sorted |-> sorted, browsers |-> found]
    ELSE [exited |-> FALSE, report |-> <<>>, sorted |-> sorted, browsers |-> found]

\* The outcomes of getBrowsersThatMatchSpec(available, s): whether it ended the
\* process, what it wrote to the error output, its local browsers after the
\* sort, and its local browsers when it returned or ended the process.
getBrowsersThatMatchSpec(available, s) ==
    LET candidates == SelectSeq(available, LAMBDA b : MatchesSpec(s, b))
    IN  IF s.browser_version.type = "list"
        THEN {EmptyCheck(s, <<>>,
                SelectSeq(candidates,
                          LAMBDA b : Includes(s.browser_version.list, b.browser_version)))}
        ELSE IF s.browser_version.type = "last"
        THEN {IF NotEnough(Len(sorted), s.browser_version.value)
              THEN [exited |-> TRUE, report |-> NotEnoughReport(s),
                    sorted |-> sorted, browsers |-> sorted]
              ELSE EmptyCheck(s, sorted, Slice(sorted, s.browser_version.value)) :
              sorted \in SortOutcomes(candidates)}
        ELSE {EmptyCheck(s, <<>>, candidates)}

-----------------------------------------------------------------------------
(* addBrowsers, getBrowserId, getTargetBrowsers *)

RECURSIVE Join(_, _)
Join(parts, sep) ==
    IF parts = <<>> THEN <<>>
    ELSE IF Len(parts) = 1 THEN parts[1]
    ELSE parts[1] \o sep \o Join(Tail(parts), sep)

\* the string Array.prototype.join uses for an element: "" for undefined and null
JoinString(v) == IF v.t = "string" THEN v.s ELSE <<>>

getBrowserId(browser) ==
    Join(<<browser.os, browser.os_version, browser.browser,
           JoinString(browser.browser_version), browser.device>>, <<"_">>)

\* id in browserMap (the object's own keys)
HasKey(map, id) == \E i \in 1..Len(map) : map[i].id = id

\* Assign that leaves an existing property as it is
AssignKeepFirst(map, id, browser) ==
    IF \E i \in 1..Len(map) : map[i].id = id
    THEN map
    ELSE Append(map, [id |-> id, browser |-> browser])

\* browserMap[id] = browser: an existing property keeps its place
Assign(map, id, browser) ==
    IF HasKey(map, id)
    THEN [i \in 1..Len(map) |->
             IF map[i].id = id THEN [id |-> id, browser |-> browser] ELSE map[i]]
    ELSE Append(map, [id |-> id, browser |-> browser])

DuplicateWarning == TextLine("duplicate browser")

\* addBrowsers(browserMap, found): the map and the lines written by console.warn
RECURSIVE addBrowsers(_, _)
addBrowsers(map, found) ==
    IF found = <<>> THEN [map |-> map, warnings |-> <<>>]
    ELSE LET id == getBrowserId(Head(found))
             warn == IF HasKey(map, id) THEN <<DuplicateWarning>> ELSE <<>>
             rest == addBrowsers(Assign(map, id, Head(found)), Tail(found))
         IN  [map |-> rest.map, warnings |-> warn \o rest.warnings]

\* Object.values(targetBrowsers)
ObjectValues(map) == [i \in 1..Len(map) |-> map[i].browser]

\* lines 69-75: the specs of one group
ResolveSpecs(aggregatedSpec) ==
    [i \in 1..Len(aggregatedSpec.browsers) |->
        [device |-> aggregatedSpec.device,
         os |-> aggregatedSpec.os,
         os_version |-> aggregatedSpec.os_version,
         browser |-> aggregatedSpec.browsers[i].browser,
         browser_version |->
             parseBrowserVersion(aggregatedSpec.browsers[i].browser_version)]]

-----------------------------------------------------------------------------
(* The inputs of a run: the provider's catalog and browsers.json *)

Browser(os, os_version, browser, browser_version, device) ==
    [os |-> os, os_version |-> os_version, browser |-> browser,
     browser_version |-> browser_version, device |-> device]

\* two groups whose os and os_version differ and join to the same text
MainOs == <<"o">>
MainOsVersion == <<"1", "_", "2">>
OtherOs == <<"o", "_", "1">>
OtherOsVersion == <<"2">>
Device == <<"d">>
BrowserName == <<"B">>

MainBrowser(version) == Browser(MainOs, MainOsVersion, BrowserName, version, Device)

\* entries of both groups: with a version, without one, with an empty one
PipelineCatalogPool ==
    {MainBrowser(Str(<<"9">>)),
     MainBrowser(Str(<<"1", "0">>)),
     MainBrowser(Absent),
     MainBrowser(Str(<<>>)),
     Browser(OtherOs, OtherOsVersion, BrowserName, Str(<<"1", "0">>), Device)}

\* and a third numeric version and a beta version
CatalogPool ==
    PipelineCatalogPool \cup
        {MainBrowser(Str(<<"9", ".", "5">>)),
         MainBrowser(Str(<<"1", "1", "b">>))}

\* all sequences of at most n elements of S
SeqsUpTo(S, n) == UNION {[1..k -> S] : k \in 0..n}

NoRepeat(q) == \A i, j \in 1..Len(q) : q[i] = q[j] => i = j

\* the catalogs of at most n entries of pool, no entry twice
Catalogs(pool, n) == {q \in SeqsUpTo(pool, n) : NoRepeat(q)}

SingleCatalogs == Catalogs(CatalogPool, MaxCatalog)
PipelineCatalogs == Catalogs(PipelineCatalogPool, MaxPipelineCatalog)

\* raw browser_version values of browsers.json
VersionPool ==
    {Absent,
     Str(<<>>),
     Str(<<"l", "a", "s", "t", " ", "0">>),
     Str(<<"l", "a", "s", "t", " ", "1">>),
     Str(<<"l", "a", "s", "t", " ", "2">>),
     Str(<<"L", "a", "s", "t", " ", "1">>),
     Str(<<"9", ",", "1", "0">>),
     Str(<<"9", ",", " ", "1", "0">>),
     Str(<<"1", "0", ".", "0">>),
     Str(<<"9", ",", "l", "a", "s", "t", " ", "1">>)}

PipelineVersionPool ==
    {Absent,
     Str(<<"l", "a", "s", "t", " ", "1">>)}

Group(os, os_version, list) ==
    [device |-> Device, os |-> os, os_version |-> os_version, browsers |-> list]

BrowserEntries(versions) ==
    {[browser |-> BrowserName, browser_version |-> v] : v \in versions}

Groups(lists) ==
    {Group(MainOs, MainOsVersion, l) : l \in lists}
        \cup {Group(OtherOs, OtherOsVersion, l) : l \in lists}

\* browsers.json with one browser entry at most
SingleFiles ==
    SeqsUpTo(Groups(SeqsUpTo(BrowserEntries(VersionPool), 1)), 1)

\* the groups of exactly k entries
GroupsOfSize(k) == Groups([1..k -> BrowserEntries(PipelineVersionPool)])

\* browsers.json with groups of one entry or more and n entries in all at most
RECURSIVE FilesUpTo(_)
FilesUpTo(n) ==
    {<<>>} \cup
    UNION {{<<g>> \o f : g \in GroupsOfSize(k), f \in FilesUpTo(n - k)} : k \in 1..n}

PipelineFiles == FilesUpTo(MaxSpecs)

-----------------------------------------------------------------------------
(* main *)

ExitFailure == 1
ExitSuccess == 0

NoSpec ==
    [device |-> <<>>, os |-> <<>>, os_version |-> <<>>, browser |-> <<>>,
     browser_version |-> parseBrowserVersion(Absent)]

Init ==
    /\ pc = "start"
    /\ response = <<>>
    /\ availableBrowsers = <<>>
    /\ aggregatedBrowserSpecs = <<>>
    /\ gi = 1
    /\ specs = <<>>
    /\ si = 1
    /\ browserMap = <<>>
    /\ spec = NoSpec
    /\ sortedBrowsers = <<>>
    /\ browsers = <<>>
    /\ calls = 0
    /\ inserted = <<>>
    /\ stderr = <<>>
    /\ stdout = <<>>
    /\ exitStatus = <<>>

\* line 39: browserstack.getBrowsers() resolves with a catalog
GetBrowsers(catalogs) ==
    /\ pc = "start"
    /\ \E all \in catalogs : response' = all
    /\ pc' = "filter"
    /\ UNCHANGED <<availableBrowsers, aggregatedBrowserSpecs, gi, specs, si,
                   browserMap, spec, sortedBrowsers, browsers, calls, inserted,
                   stderr, stdout, exitStatus>>

\* line 24: browserstack.getBrowsers() rejects; main() has no handler, and the
\* status of a process ended by an unhandled rejection depends on the runtime
GetBrowsersError ==
    /\ pc = "start"
    /\ pc' = "rejected"
    /\ \E status \in {ExitSuccess, ExitFailure} : exitStatus' = <<status>>
    /\ UNCHANGED <<response, availableBrowsers, aggregatedBrowserSpecs, gi, specs,
                   si, browserMap, spec, sortedBrowsers, browsers, calls, inserted,
                   stderr, stdout>>

\* lines 42-44 and 223: the filter, and its result bound to availableBrowsers
loadAvailableBrowsers ==
    /\ pc = "filter"
    /\ availableBrowsers' = FilterStable(response)
    /\ pc' = "load"
    /\ UNCHANGED <<response, aggregatedBrowserSpecs, gi, specs, si, browserMap,
                   spec, sortedBrowsers, browsers, calls, inserted, stderr, stdout,
                   exitStatus>>

\* lines 51-55, 224 and 66: browsers.json is read and parsed, and
\* getTargetBrowsers starts with an empty map
loadAggregatedBrowserSpecs(files) ==
    /\ pc = "load"
    /\ \E file \in files : aggregatedBrowserSpecs' = file
    /\ gi' = 1
    /\ browserMap' = <<>>
    /\ pc' = "group"
    /\ UNCHANGED <<response, availableBrowsers, specs, si, spec, sortedBrowsers,
                   browsers, calls, inserted, stderr, stdout, exitStatus>>

\* lines 53-54: readFileSync or JSON.parse throws, and main() rejects
LoadSpecsError ==
    /\ pc = "load"
    /\ pc' = "rejected"
    /\ \E status \in {ExitSuccess, ExitFailure} : exitStatus' = <<status>>
    /\ UNCHANGED <<response, availableBrowsers, aggregatedBrowserSpecs, gi, specs,
                   si, browserMap, spec, sortedBrowsers, browsers, calls, inserted,
                   stderr, stdout>>

\* lines 68-75: the outer forEach takes the next group and resolves its specs
NextGroup ==
    /\ pc = "group"
    /\ gi <= Len(aggregatedBrowserSpecs)
    /\ specs' = ResolveSpecs(aggregatedBrowserSpecs[gi])
    /\ si' = 1
    /\ IF Len(aggregatedBrowserSpecs[gi].browsers) = 0
       THEN gi' = gi + 1 /\ pc' = "group"
       ELSE gi' = gi /\ pc' = "spec"
    /\ UNCHANGED <<response, availableBrowsers, aggregatedBrowserSpecs, browserMap,
                   spec, sortedBrowsers, browsers, calls, inserted, stderr, stdout,
                   exitStatus>>

\* lines 77-80 when getBrowsersThatMatchSpec returns: addBrowsers stores its result
MatchSpecReturn ==
    /\ pc = "spec"
    /\ si <= Len(specs)
    /\ \E o \in getBrowsersThatMatchSpec(availableBrowsers, specs[si]) :
          /\ ~o.exited
          /\ spec' = specs[si]
          /\ sortedBrowsers' = o.sorted
          /\ browsers' = o.browsers
          /\ LET added == addBrowsers(browserMap, o.browsers)
             IN  /\ browserMap' = added.map
                 /\ stderr' = stderr \o added.warnings
          /\ inserted' = inserted \o o.browsers
    /\ calls' = calls + 1
    /\ si' = si + 1
    /\ IF si = Len(specs)
       THEN gi' = gi + 1 /\ pc' = "group"
       ELSE gi' = gi /\ pc' = "spec"
    /\ UNCHANGED <<response, availableBrowsers, aggregatedBrowserSpecs, specs,
                   stdout, exitStatus>>

\* lines 77-78 when getBrowsersThatMatchSpec calls process.exit(1)
MatchSpecExit ==
    /\ pc = "spec"
    /\ si <= Len(specs)
    /\ \E o \in getBrowsersThatMatchSpec(availableBrowsers, specs[si]) :
          /\ o.exited
          /\ spec' = specs[si]
          /\ sortedBrowsers' = o.sorted
          /\ browsers' = o.browsers
          /\ stderr' = stderr \o o.report
    /\ calls' = calls + 1
    /\ exitStatus' = <<ExitFailure>>
    /\ pc' = "exited"
    /\ UNCHANGED <<response, availableBrowsers, aggregatedBrowserSpecs, gi, specs,
                   si, browserMap, inserted, stdout>>

\* lines 83 and 225-227: getTargetBrowsers returns the map's values, main logs
\* them and ends (the runner stage of lines 229-237 is commented out in the
\* source: main creates no temporary file and starts no runner)
LogTargetBrowsers ==
    /\ pc = "group"
    /\ gi > Len(aggregatedBrowserSpecs)
    /\ stdout' = Append(stdout, ObjectValues(browserMap))
    /\ exitStatus' = <<ExitSuccess>>
    /\ pc' = "done"
    /\ UNCHANGED <<response, availableBrowsers, aggregatedBrowserSpecs, gi, specs,
                   si, browserMap, spec, sortedBrowsers, browsers, calls, inserted,
                   stderr>>

Steps ==
    \/ GetBrowsersError
    \/ loadAvailableBrowsers
    \/ LoadSpecsError
    \/ NextGroup
    \/ MatchSpecReturn
    \/ MatchSpecExit
    \/ LogTargetBrowsers

\* the whole pipeline on short catalogs and files of several specs
Next ==
    \/ GetBrowsers(PipelineCatalogs)
    \/ loadAggregatedBrowserSpecs(PipelineFiles)
    \/ Steps

Spec == Init /\ [][Next]_vars

\* the pipeline on longer catalogs and files of one spec
NextSingle ==
    \/ GetBrowsers(SingleCatalogs)
    \/ loadAggregatedBrowserSpecs(SingleFiles)
    \/ Steps

SpecSingle == Init /\ [][NextSingle]_vars

-----------------------------------------------------------------------------
(* The properties.  They are stated with the definitions below, which say  *)
(* what a claim means on their own; of the operators that model the code   *)
(* they use only the conversions parseFloat and ToNumber and the identity  *)
(* key getBrowserId.                                                       *)

ElementsOf(q) == {q[i] : i \in 1..Len(q)}

\* the latest getBrowsersThatMatchSpec call returned
Returned == calls > 0 /\ pc # "exited"

\* b equals the spec s on device, os, os_version and browser
SameGroup(s, b) ==
    <<s.device, s.os, s.os_version, s.browser>>
        = <<b.device, b.os, b.os_version, b.browser>>

\* the catalog entries in the group of the latest spec
CandidateSet == {b \in ElementsOf(availableBrowsers) : SameGroup(spec, b)}

AllDigits(s) == Len(s) > 0 /\ \A i \in 1..Len(s) : s[i] \in Digits

\* an integer, optionally followed by a dot and an integer
IsIntegerDotInteger(s) ==
    \/ AllDigits(s)
    \/ \E d \in 1..Len(s) :
          /\ s[d] = "."
          /\ AllDigits(SubSeq(s, 1, d - 1))
          /\ AllDigits(SubSeq(s, d + 1, Len(s)))

HasNumericVersion(b) ==
    b.browser_version.t = "string" /\ IsIntegerDotInteger(b.browser_version.s)

\* the version of a is numerically higher than the version of b
HigherVersion(a, b) ==
    LET x == parseFloat(a.browser_version)
        y == parseFloat(b.browser_version)
    IN  /\ ~x.nan
        /\ ~y.nan
        /\ x.num * Pow10(y.scale) > y.num * Pow10(x.scale)

DistinctVersions(S) ==
    \A a, b \in S : a # b => (HigherVersion(a, b) \/ HigherVersion(b, a))

\* the number the latest spec asks for, when it is a LastN spec
RequestedCount == ToNumber(spec.browser_version.value)

\* the error output holds the JSON of the spec s
Reported(s) == \E i \in 1..Len(stderr) : stderr[i].json = <<s>>

\* the returned browsers are n entries of the group, none left out is higher
ReturnsHighest(n) ==
    /\ Returned
    /\ Len(browsers) = n
    /\ Cardinality(ElementsOf(browsers)) = n
    /\ ElementsOf(browsers) \subseteq CandidateSet
    /\ \A c \in CandidateSet \ ElementsOf(browsers), r \in ElementsOf(browsers) :
          ~HigherVersion(c, r)

(* C1 as stated: for a LastN(n) spec and a catalog in which at least n       *)
(* entries of the spec's group carry pairwise distinct numeric versions,     *)
(* getBrowsersThatMatchSpec returns exactly n entries, the n of the group    *)
(* with the highest versions.                                                *)
C1_LastNReturnsHighest_AsStated ==
    (/\ calls > 0
     /\ spec.browser_version.type = "last"
     /\ LET numeric == {b \in CandidateSet : HasNumericVersion(b)}
        IN  Cardinality(numeric) >= RequestedCount /\ DistinctVersions(numeric))
        => ReturnsHighest(RequestedCount)

(* C1 amended: the same, for n >= 1 and a group all of whose entries carry   *)
(* numeric versions, pairwise distinct: exactly n entries are returned, in   *)
(* descending order, and no entry left out is higher than one returned.      *)
C1_LastNReturnsHighest ==
    (/\ calls > 0
     /\ spec.browser_version.type = "last"
     /\ RequestedCount >= 1
     /\ \A b \in CandidateSet : HasNumericVersion(b)
     /\ Cardinality(CandidateSet) >= RequestedCount
     /\ DistinctVersions(CandidateSet))
        => /\ ReturnsHighest(RequestedCount)
           /\ \A i, j \in 1..Len(browsers) :
                 i < j => HigherVersion(browsers[i], browsers[j])

\* two of three numeric versions were taken
C1_Witness ==
    /\ Returned
    /\ spec.browser_version.type = "last"
    /\ RequestedCount = 2
    /\ Cardinality(CandidateSet) = 3
    /\ \A b \in CandidateSet : HasNumericVersion(b)
    /\ Len(browsers) = 2

\* the candidates the version constraint of the latest spec leaves
ConstrainedSet ==
    CASE spec.browser_version.type = "no-version" -> CandidateSet
      [] spec.browser_version.type = "list" ->
            {b \in CandidateSet :
                /\ b.browser_version.t = "string"
                /\ b.browser_version.s \in ElementsOf(spec.browser_version.list)}
      [] spec.browser_version.type = "last" ->
            IF RequestedCount = 0 THEN {} ELSE CandidateSet

(* C2: when the candidate set of a spec is empty after the group filter    *)
(* and the version constraint, the run ends with exit status 1, the spec's *)
(* JSON is on the error output, and no target list is written.             *)
C2_EmptyIsFatal ==
    (calls > 0 /\ ConstrainedSet = {})
        => /\ pc = "exited"
           /\ exitStatus = <<1>>
           /\ Reported(spec)
           /\ stdout = <<>>

\* an ExactList spec whose group is not empty and whose list matches no entry
C2_Witness ==
    /\ pc = "exited"
    /\ spec.browser_version.type = "list"
    /\ CandidateSet # {}
    /\ ConstrainedSet = {}

IsPermutationOf(q, S) ==
    Len(q) = Cardinality(S) /\ ElementsOf(q) = S

DuplicateWarnings ==
    Cardinality({i \in 1..Len(stderr) : stderr[i].text = "duplicate browser"})

RawVersion(j) == aggregatedBrowserSpecs[gi].browsers[j].browser_version

\* s is the literal "last " followed by an integer
IsLastN(s) ==
    /\ Len(s) >= 6
    /\ SubSeq(s, 1, 5) = <<"l", "a", "s", "t", " ">>
    /\ AllDigits(SubSeq(s, 6, Len(s)))

(* C5 as stated: parseBrowserVersion maps an absent or empty raw version   *)
(* to NoVersion, a raw string to LastN(N) exactly when it is the literal   *)
(* "last " followed by an integer N, and every other raw string to the     *)
(* ExactList of its comma-separated pieces, untrimmed.                     *)
C5_ParseBrowserVersion_AsStated ==
    pc = "spec" =>
        \A j \in 1..Len(specs) :
            LET raw == RawVersion(j)
                parsed == specs[j].browser_version
            IN  IF raw.t = "absent" \/ raw.s = <<>>
                THEN parsed.type = "no-version"
                ELSE IF IsLastN(raw.s)
                THEN /\ parsed.type = "last"
                     /\ ToNumber(parsed.value) = ToNumber(SubSeq(raw.s, 6, Len(raw.s)))
                ELSE /\ parsed.type = "list"
                     /\ Join(parsed.list, <<",">>) = raw.s
                     /\ \A i \in 1..Len(parsed.list) :
                           \A k \in 1..Len(parsed.list[i]) : parsed.list[i][k] # ","

(* C7: for an ExactList spec, getBrowsersThatMatchSpec returns exactly the *)
(* catalog entries of the spec's group whose version string is, character  *)
(* for character, a member of the list; when there is one, it returns.     *)
C7_ExactListMembers ==
    (calls > 0 /\ spec.browser_version.type = "list")
        => LET members ==
                   {b \in CandidateSet :
                       /\ b.browser_version.t = "string"
                       /\ \E i \in 1..Len(spec.browser_version.list) :
                             spec.browser_version.list[i] = b.browser_version.s}
           IN  /\ members # {} => Returned
               /\ Returned => IsPermutationOf(browsers, members)

\* an entry of the group was returned and another was not
C7_Witness ==
    /\ Returned
    /\ spec.browser_version.type = "list"
    /\ Len(browsers) >= 1
    /\ Cardinality(CandidateSet) > Len(browsers)
    /\ Cardinality(ElementsOf(availableBrowsers)) > Cardinality(CandidateSet)

(* C8: for a spec with no browser_version and a catalog with an entry in   *)
(* the spec's group, getBrowsersThatMatchSpec returns all the entries of   *)
(* the group and no others, whatever their versions.                       *)
C8_NoVersionReturnsGroup ==
    (calls > 0 /\ spec.browser_version.type = "no-version" /\ CandidateSet # {})
        => /\ Returned
           /\ IsPermutationOf(browsers, CandidateSet)

\* the group holds an entry with no version and one with a version, and the
\* catalog an entry of another group
C8_Witness ==
    /\ Returned
    /\ spec.browser_version.type = "no-version"
    /\ \E b \in ElementsOf(browsers) : b.browser_version.t = "absent"
    /\ \E b \in ElementsOf(browsers) : HasNumericVersion(b)
    /\ Cardinality(ElementsOf(availableBrowsers)) > Len(browsers)

Fetched == pc \notin {"start", "filter", "rejected"}

HasNoVersionField(b) == b.browser_version.t = "absent"

(* C9 as stated: loadAvailableBrowsers retains an entry if and only if it  *)
(* has no version field or its version is an integer optionally followed   *)
(* by a dot and an integer; the retained entries keep their order.         *)
C9_StableFilter_AsStated ==
    Fetched =>
        availableBrowsers =
            SelectSeq(response,
                      LAMBDA b : HasNoVersionField(b) \/ HasNumericVersion(b))

(* C9 amended: an entry is retained if and only if it has no version       *)
(* field, its version is the empty string, or its version is an integer    *)
(* optionally followed by a dot and an integer; order and content kept.    *)
C9_StableFilter ==
    Fetched =>
        availableBrowsers =
            SelectSeq(response,
                      LAMBDA b : \/ HasNoVersionField(b)
                                 \/ b.browser_version = Str(<<>>)
                                 \/ HasNumericVersion(b))

\* a beta version was dropped between two entries that were kept
C9_Witness ==
    /\ Fetched
    /\ Len(response) = 3
    /\ ~HasNoVersionField(response[2])
    /\ ~HasNumericVersion(response[2])
    /\ response[2].browser_version # Str(<<>>)
    /\ availableBrowsers = <<response[1], response[3]>>
    /\ HasNumericVersion(response[3])

(* C10 as stated: the list getTargetBrowsers returns is, as a set of       *)
(* records, the union of the matches of all specs: no matched entry is     *)
(* missing because a different entry produced the same identity key.       *)
C10_TargetsAreAllMatches_AsStated ==
    pc = "done" => ElementsOf(stdout[1]) = ElementsOf(inserted)

====
